---- MODULE Spec2Model ----
(***************************************************************************)
(* Account REST service (service/routes.py).                               *)
(*                                                                         *)
(* The state is the accounts table behind the Account record layer and the *)
(* id sequence of that table.  Every HTTP request is one atomic step: the  *)
(* router picks the handler bound to the method and the URL rule, the      *)
(* handler runs to completion and answers.  The handlers are operators     *)
(* from the table and the request to the response and the new table; the   *)
(* actions apply them.                                                     *)
(*                                                                         *)
(* The Account record layer (service/models.py) and the error handlers     *)
(* (service/common/error_handlers.py) are not part of the sources at hand; *)
(* they are modelled from sections 3, 4.2 and 7 of the specification.      *)
(*                                                                         *)
(* A JSON value that may be missing (a key of the payload, a nullable      *)
(* column) is a set with at most one element: {} is "absent"/null and {v}  *)
(* is the value v.  A string that is parsed or formatted (the ISO date) is *)
(* a sequence of one-character strings.                                    *)
(***************************************************************************)
EXTENDS Integers, Sequences, FiniteSets, TLC

(* ------------------------------ bounds --------------------------------- *)

\* the CreateAccounts action stops adding rows at this table size
MaxAccounts == 2

(* ------------------------- HTTP status codes --------------------------- *)

HTTP_200_OK == 200
HTTP_201_CREATED == 201
HTTP_204_NO_CONTENT == 204
HTTP_400_BAD_REQUEST == 400
HTTP_404_NOT_FOUND == 404
HTTP_405_METHOD_NOT_ALLOWED == 405
HTTP_415_UNSUPPORTED_MEDIA_TYPE == 415

(* --------------------------- input domains ----------------------------- *)

Names == {"Ann", "Super Sonic"}
Emails == {"ann@example.com"}
Addresses == {"1 Main St"}
Phones == {"555-0100"}
\* the dates a client sends as date_joined
Dates == {[year |-> 2023, month |-> 11, day |-> 30]}

\* date.today(): the requests of one run are served on one day
Today == [year |-> 2026, month |-> 1, day |-> 5]

\* {} stands for a request without a Content-Type header
ContentTypes == {{}, {"test/html"}, {"application/json; charset=utf-8"},
                 {"application/json"}}

Methods == {"GET", "POST", "PUT", "DELETE"}

\* the int converter of the URL rule accepts the non-negative integers
AccountIds == 0 .. (MaxAccounts + 1)

\* an id a client may put in the payload
ClientIds == {7}

Optional(S) == {{}} \cup {{v} : v \in S}

Only(opt) == CHOOSE v \in opt : TRUE

(* ------------------------ ISO date conversion -------------------------- *)

DigitChars == <<"0", "1", "2", "3", "4", "5", "6", "7", "8", "9">>

RECURSIVE Pow10(_)
Pow10(k) == IF k = 0 THEN 1 ELSE 10 * Pow10(k - 1)

\* n in decimal, zero-padded to w characters
Digits(n, w) == [i \in 1 .. w |-> DigitChars[((n \div Pow10(w - i)) % 10) + 1]]

DigitValue(c) == (CHOOSE i \in 1 .. 10 : DigitChars[i] = c) - 1

RECURSIVE Number(_)
Number(s) == IF s = <<>> THEN 0
             ELSE 10 * Number(SubSeq(s, 1, Len(s) - 1)) + DigitValue(s[Len(s)])

\* date.isoformat(): YYYY-MM-DD
isoformat(d) == Digits(d.year, 4) \o <<"-">> \o Digits(d.month, 2) \o <<"-">>
                \o Digits(d.day, 2)

\* date.fromisoformat() of a YYYY-MM-DD string
fromisoformat(s) == [year |-> Number(SubSeq(s, 1, 4)),
                     month |-> Number(SubSeq(s, 6, 7)),
                     day |-> Number(SubSeq(s, 9, 10))]

(* ------------------------------ payloads ------------------------------- *)

\* the optional keys of a payload: a client sends both or neither
Extras == {[phone_number |-> {}, date_joined |-> {}]}
          \cup {[phone_number |-> {p}, date_joined |-> {isoformat(d)}] :
                   p \in Phones, d \in Dates}

\* a JSON object sent by a client; id, name and email may be missing too
Mappings == {[is_mapping |-> TRUE, id |-> i, name |-> n, email |-> e,
              address |-> {a}, phone_number |-> x.phone_number,
              date_joined |-> x.date_joined] :
                 i \in Optional(ClientIds), n \in Optional(Names),
                 e \in Optional(Emails), a \in Addresses, x \in Extras}

\* a JSON document that is not an object (a list, a number, null)
NotAMapping == [is_mapping |-> FALSE, id |-> {}, name |-> {}, email |-> {},
                address |-> {}, phone_number |-> {}, date_joined |-> {}]

Payloads == Mappings \cup {NotAMapping}

ValidPayloads == {p \in Mappings : p.name # {} /\ p.email # {}}

\* the fields of a payload that describe the account
Fields(p) == [name |-> p.name, email |-> p.email, address |-> p.address,
              phone_number |-> p.phone_number, date_joined |-> p.date_joined]

(* ------------------------ Account record layer ------------------------- *)

\* Account(): a record not yet in the table has no id
NoId == 0

Account == [id |-> NoId, name |-> "", email |-> "", address |-> {},
            phone_number |-> {}, date_joined |-> Today]

\* Account.deserialize(data): ok is FALSE for DataValidationError
deserialize(account, data) ==
    IF ~data.is_mapping \/ data.name = {} \/ data.email = {}
    THEN [ok |-> FALSE, account |-> account]
    ELSE [ok |-> TRUE,
          account |-> [id |-> account.id,
                       name |-> Only(data.name),
                       email |-> Only(data.email),
                       address |-> data.address,
                       phone_number |-> data.phone_number,
                       date_joined |-> IF data.date_joined = {} THEN Today
                                       ELSE fromisoformat(Only(data.date_joined))]]

\* Account.serialize()
serialize(account) ==
    [id |-> account.id, name |-> account.name, email |-> account.email,
     address |-> account.address, phone_number |-> account.phone_number,
     date_joined |-> isoformat(account.date_joined)]

\* Account.create(): insert, the table assigns the next id of its sequence
create(rows, seq, account) ==
    [rows |-> Append(rows, [account EXCEPT !.id = seq]),
     seq |-> seq + 1,
     account |-> [account EXCEPT !.id = seq]]

\* Account.find(id): the rows with that id, none when there is no such row
find(rows, account_id) == SelectSeq(rows, LAMBDA r : r.id = account_id)

\* Account.update(): write the record over the row of the same id
update(rows, account) ==
    [i \in 1 .. Len(rows) |-> IF rows[i].id = account.id THEN account ELSE rows[i]]

\* Account.all()
all(rows) == rows

(* ------------------------------ handlers ------------------------------- *)

Response(status, body, location, rows, seq) ==
    [status |-> status, body |-> body, location |-> location,
     accounts |-> rows, next_id |-> seq]

\* abort(status): no body of interest, the request's transaction is rolled back
Abort(status, rows, seq) == Response(status, <<>>, {}, rows, seq)

\* variant of check_content_type: a request without the header passes
check_content_type_lenient(content_type, media_type) ==
    content_type = {} \/ Only(content_type) = media_type

\* check_content_type(media_type): TRUE when it returns, FALSE when it aborts
check_content_type(content_type, media_type) ==
    content_type # {} /\ Only(content_type) # "" /\ Only(content_type) = media_type

\* variant of create_accounts: the message is serialized before account.create()
create_accounts_stale(rows, seq, content_type, data) ==
    IF ~check_content_type(content_type, "application/json")
    THEN Abort(HTTP_415_UNSUPPORTED_MEDIA_TYPE, rows, seq)
    ELSE LET d == deserialize(Account, data)
         IN  IF ~d.ok
             THEN Abort(HTTP_400_BAD_REQUEST, rows, seq)
             ELSE LET message == serialize(d.account)
                      c == create(rows, seq, d.account)
                  IN  Response(HTTP_201_CREATED, <<message>>, {"/"}, c.rows, c.seq)

\* variant of create_accounts: the record is inserted before it is validated
create_accounts_unvalidated(rows, seq, content_type, data) ==
    IF ~check_content_type(content_type, "application/json")
    THEN Abort(HTTP_415_UNSUPPORTED_MEDIA_TYPE, rows, seq)
    ELSE LET c == create(rows, seq, Account)
             d == deserialize(c.account, data)
         IN  IF ~d.ok
             THEN Abort(HTTP_400_BAD_REQUEST, c.rows, c.seq)
             ELSE Response(HTTP_201_CREATED, <<serialize(d.account)>>, {"/"},
                           update(c.rows, d.account), c.seq)

create_accounts(rows, seq, content_type, data) ==
    IF ~check_content_type(content_type, "application/json")
    THEN Abort(HTTP_415_UNSUPPORTED_MEDIA_TYPE, rows, seq)
    ELSE LET d == deserialize(Account, data)
         IN  IF ~d.ok
             THEN Abort(HTTP_400_BAD_REQUEST, rows, seq)
             ELSE LET c == create(rows, seq, d.account)
                      message == serialize(c.account)
                      location_url == "/"
                  IN  Response(HTTP_201_CREATED, <<message>>, {location_url},
                               c.rows, c.seq)

\* variant of list_accounts: the first account is left out of the list
list_accounts_skip(rows, seq) ==
    LET account_list == all(rows)
        accounts_list == [i \in 1 .. Len(account_list) - 1 |->
                              serialize(account_list[i + 1])]
    IN  Response(HTTP_200_OK, accounts_list, {}, rows, seq)

list_accounts(rows, seq) ==
    LET account_list == all(rows)
        accounts_list == [i \in 1 .. Len(account_list) |-> serialize(account_list[i])]
    IN  Response(HTTP_200_OK, accounts_list, {}, rows, seq)

\* variant of get_accounts: answers with the first account of the table
get_accounts_first(rows, seq, account_id) ==
    LET find_account == find(rows, account_id)
    IN  IF find_account = <<>>
        THEN Abort(HTTP_404_NOT_FOUND, rows, seq)
        ELSE Response(HTTP_200_OK, <<serialize(all(rows)[1])>>, {}, rows, seq)

get_accounts(rows, seq, account_id) ==
    LET find_account == find(rows, account_id)
    IN  IF find_account = <<>>
        THEN Abort(HTTP_404_NOT_FOUND, rows, seq)
        ELSE Response(HTTP_200_OK, <<serialize(find_account[1])>>, {}, rows, seq)

\* variant of update_accounts: account.update() is never called
update_accounts_unsaved(rows, seq, account_id, data) ==
    LET find_account == find(rows, account_id)
    IN  IF find_account = <<>>
        THEN Abort(HTTP_404_NOT_FOUND, rows, seq)
        ELSE LET d == deserialize(find_account[1], data)
             IN  IF ~d.ok
                 THEN Abort(HTTP_400_BAD_REQUEST, rows, seq)
                 ELSE Response(HTTP_200_OK, <<serialize(d.account)>>, {}, rows, seq)

\* variant of update_accounts: an id without a record is created instead of refused
update_accounts_upsert(rows, seq, account_id, data) ==
    LET find_account == find(rows, account_id)
        d == deserialize(IF find_account = <<>> THEN Account ELSE find_account[1], data)
    IN  IF ~d.ok
        THEN Abort(HTTP_400_BAD_REQUEST, rows, seq)
        ELSE IF find_account = <<>>
             THEN LET c == create(rows, seq, d.account)
                  IN  Response(HTTP_200_OK, <<serialize(c.account)>>, {}, c.rows, c.seq)
             ELSE Response(HTTP_200_OK, <<serialize(d.account)>>, {},
                           update(rows, d.account), seq)

update_accounts(rows, seq, account_id, data) ==
    LET find_account == find(rows, account_id)
    IN  IF find_account = <<>>
        THEN Abort(HTTP_404_NOT_FOUND, rows, seq)
        ELSE LET d == deserialize(find_account[1], data)
             IN  IF ~d.ok
                 THEN Abort(HTTP_400_BAD_REQUEST, rows, seq)
                 ELSE Response(HTTP_200_OK, <<serialize(d.account)>>, {},
                               update(rows, d.account), seq)

health(rows, seq) == Response(HTTP_200_OK, <<[status |-> "OK"]>>, {}, rows, seq)

index(rows, seq) ==
    Response(HTTP_200_OK, <<[name |-> "Account REST API Service", version |-> "1.0"]>>,
             {}, rows, seq)

(* ------------------------------- routing ------------------------------- *)

ById == "/accounts/<int:account_id>"

\* the URL rules declared by the route decorators
Rules == {"/health", "/", "/accounts", ById}

\* variant of url_map: the list route is bound to DELETE as well
url_map_delete ==
    {[rule |-> "/health", methods |-> {"GET"}, endpoint |-> "health"],
     [rule |-> "/", methods |-> {"GET"}, endpoint |-> "index"],
     [rule |-> "/accounts", methods |-> {"POST"}, endpoint |-> "create_accounts"],
     [rule |-> "/accounts", methods |-> {"GET", "DELETE"}, endpoint |-> "list_accounts"],
     [rule |-> ById, methods |-> {"GET"}, endpoint |-> "get_accounts"],
     [rule |-> ById, methods |-> {"PUT"}, endpoint |-> "update_accounts"]}

\* the route decorators: route() binds GET when it names no methods
url_map ==
    {[rule |-> "/health", methods |-> {"GET"}, endpoint |-> "health"],
     [rule |-> "/", methods |-> {"GET"}, endpoint |-> "index"],
     [rule |-> "/accounts", methods |-> {"POST"}, endpoint |-> "create_accounts"],
     [rule |-> "/accounts", methods |-> {"GET"}, endpoint |-> "list_accounts"],
     [rule |-> ById, methods |-> {"GET"}, endpoint |-> "get_accounts"],
     [rule |-> ById, methods |-> {"PUT"}, endpoint |-> "update_accounts"]}

\* the endpoints bound to the method on the rule
match(method, rule) ==
    {e.endpoint : e \in {x \in url_map : x.rule = rule /\ method \in x.methods}}

Request(method, rule, account_id, content_type, data) ==
    [method |-> method, rule |-> rule, id |-> account_id,
     content_type |-> content_type, data |-> data]

\* a request without a body
Bare(method, rule, account_id) == Request(method, rule, account_id, {}, NotAMapping)

\* the router: 405 when the rule is not bound to the method, else the view
handle(rows, seq, req) ==
    LET m == match(req.method, req.rule)
        endpoint == Only(m)
    IN  IF m = {}
        THEN Abort(HTTP_405_METHOD_NOT_ALLOWED, rows, seq)
        ELSE CASE endpoint = "health" -> health(rows, seq)
               [] endpoint = "index" -> index(rows, seq)
               [] endpoint = "create_accounts" ->
                      create_accounts(rows, seq, req.content_type, req.data)
               [] endpoint = "list_accounts" -> list_accounts(rows, seq)
               [] endpoint = "get_accounts" -> get_accounts(rows, seq, req.id)
               [] endpoint = "update_accounts" ->
                      update_accounts(rows, seq, req.id, req.data)

(* -------------------------------- state -------------------------------- *)

VARIABLES
    accounts,    \* the rows of the accounts table, in insertion order
    next_id,     \* the next value of the table's id sequence
    last,        \* history: the request served last and its response
    used_ids,    \* history: every id a 201 response has carried
    written,     \* history: id -> fields of the payload of the last POST or PUT that wrote it
    updated,     \* history: the ids a PUT has written
    n_created    \* history: the number of 201 responses

vars == <<accounts, next_id, last, used_ids, written, updated, n_created>>

Init ==
    /\ accounts = <<>>
    /\ next_id = 1
    /\ last = [handler |-> "none", method |-> "GET", rule |-> "/", id |-> NoId,
               was |-> <<>>, status |-> HTTP_200_OK, location |-> {}]
    /\ used_ids = {}
    /\ written = <<>>
    /\ updated = {}
    /\ n_created = 0

\* one request, served from its arrival to its response
Serve(req) ==
    \E r \in {handle(accounts, next_id, req)} :
        LET m == match(req.method, req.rule)
            handler == IF m = {} THEN "method_not_allowed" ELSE Only(m)
            created == handler = "create_accounts" /\ r.status = HTTP_201_CREATED
            changed == handler = "update_accounts" /\ r.status = HTTP_200_OK
            account_id == IF created THEN r.body[1].id ELSE req.id
        IN  /\ Len(r.accounts) <= MaxAccounts
            /\ accounts' = r.accounts
            /\ next_id' = r.next_id
            /\ last' = [handler |-> handler, method |-> req.method, rule |-> req.rule,
                        id |-> account_id, was |-> find(accounts, req.id),
                        status |-> r.status, location |-> r.location]
            /\ used_ids' = IF created THEN used_ids \cup {account_id} ELSE used_ids
            /\ written' = IF created \/ changed
                          THEN (account_id :> Fields(req.data)) @@ written
                          ELSE written
            /\ updated' = IF changed THEN updated \cup {account_id} ELSE updated
            /\ n_created' = IF created THEN n_created + 1 ELSE n_created

\* GET /health
Health ==
    /\ match("GET", "/health") = {"health"}
    /\ Serve(Bare("GET", "/health", NoId))

\* GET /
Index ==
    /\ match("GET", "/") = {"index"}
    /\ Serve(Bare("GET", "/", NoId))

\* POST /accounts
CreateAccounts ==
    \E content_type \in ContentTypes, data \in Payloads :
        /\ match("POST", "/accounts") = {"create_accounts"}
        /\ Serve(Request("POST", "/accounts", NoId, content_type, data))

\* GET /accounts
ListAccounts ==
    /\ match("GET", "/accounts") = {"list_accounts"}
    /\ Serve(Bare("GET", "/accounts", NoId))

\* GET /accounts/<account_id>
GetAccounts ==
    \E account_id \in AccountIds :
        /\ match("GET", ById) = {"get_accounts"}
        /\ Serve(Bare("GET", ById, account_id))

\* PUT /accounts/<account_id> with a JSON body
UpdateAccounts ==
    \E account_id \in AccountIds, data \in Payloads :
        /\ match("PUT", ById) = {"update_accounts"}
        /\ Serve(Request("PUT", ById, account_id, {"application/json"}, data))

\* DELETE /accounts/<account_id>: the section declares no view
DeleteAccounts ==
    \E account_id \in AccountIds :
        /\ match("DELETE", ById) = {}
        /\ Serve(Bare("DELETE", ById, account_id))

\* any other method on a rule that is not bound to it
MethodNotAllowed ==
    \E method \in Methods, rule \in Rules, account_id \in AccountIds :
        /\ match(method, rule) = {}
        /\ ~(method = "DELETE" /\ rule = ById)
        /\ account_id # NoId <=> rule = ById
        /\ Serve(Bare(method, rule, account_id))

Next ==
    \/ Health
    \/ Index
    \/ CreateAccounts
    \/ ListAccounts
    \/ GetAccounts
    \/ UpdateAccounts
    \/ DeleteAccounts
    \/ MethodNotAllowed

Spec == Init /\ [][Next]_vars

(* ------------------------------- claims -------------------------------- *)

JSON == {"application/json"}

Ids(rows) == {rows[i].id : i \in 1 .. Len(rows)}

\* the response describes one account whose fields are those of the payload:
\* a missing phone_number reads null, a missing date_joined reads the day of
\* the request
Echoes(r, fields) ==
    /\ Len(r.body) = 1
    /\ r.body[1].name = Only(fields.name)
    /\ r.body[1].email = Only(fields.email)
    /\ r.body[1].address = fields.address
    /\ r.body[1].phone_number = fields.phone_number
    /\ r.body[1].date_joined = IF fields.date_joined = {} THEN isoformat(Today)
                               ELSE Only(fields.date_joined)

\* (a response r is bound by \E r \in {handle(...)}, which evaluates it once)

\* the request left the table and its id sequence as they were
Untouched(r) == r.accounts = accounts /\ r.next_id = next_id

\* the URL of the read-by-id route for an account
account_url(account_id) == "/accounts/" \o ToString(account_id)

\* C1: in every reachable state, POST /accounts with Content-Type
\* application/json and a payload with name and email answers 201, appends
\* exactly one row to the table, echoes the payload's name, email, address,
\* phone_number and date_joined, and carries a positive id that no earlier
\* 201 response has carried.
CreateReturnsNewAccount ==
    \A data \in ValidPayloads :
        \E r \in {handle(accounts, next_id, Request("POST", "/accounts", NoId, JSON, data))} :
            /\ r.status = HTTP_201_CREATED
            /\ Len(r.accounts) = Len(accounts) + 1
            /\ SubSeq(r.accounts, 1, Len(accounts)) = accounts
            /\ Echoes(r, Fields(data))
            /\ r.body[1].id > 0
            /\ r.body[1].id \notin used_ids
            /\ r.body[1] = serialize(r.accounts[Len(r.accounts)])

CreateReturnsNewAccountWitness ==
    /\ last.handler = "create_accounts"
    /\ last.status = HTTP_201_CREATED
    /\ last.id = 2
    /\ Len(accounts) = 2

\* C2: every 201 response of POST /accounts carries a Location header that
\* is the URL of the read-by-id route for the id of the new account.
CreateLocationIsAccountUrl ==
    (last.handler = "create_accounts" /\ last.status = HTTP_201_CREATED)
        => last.location = {account_url(last.id)}

\* C3: DELETE /accounts/{id} on the id of an existing record answers 204 and
\* a GET /accounts/{id} on that id afterwards answers 404.
DeleteThenGetNotFound ==
    (last.method = "DELETE" /\ last.rule = ById /\ last.was # <<>>)
        => /\ last.status = HTTP_204_NO_CONTENT
           /\ get_accounts(accounts, next_id, last.id).status = HTTP_404_NOT_FOUND

\* C4: in every reachable state, POST /accounts with a JSON object that
\* lacks name or lacks email answers 400 and leaves the table, and with it
\* the length of the GET /accounts list, as it was.
CreateWithoutNameOrEmailIsBadRequest ==
    \A data \in Mappings \ ValidPayloads :
        \E r \in {handle(accounts, next_id, Request("POST", "/accounts", NoId, JSON, data))} :
            /\ r.status = HTTP_400_BAD_REQUEST
            /\ Untouched(r)
            /\ Len(list_accounts(r.accounts, r.next_id).body)
                   = Len(list_accounts(accounts, next_id).body)

CreateWithoutNameOrEmailWitness ==
    /\ last.handler = "create_accounts"
    /\ last.status = HTTP_400_BAD_REQUEST
    /\ Len(accounts) = 1

\* C5: in every reachable state, POST /accounts without a Content-Type
\* header or with one that is not exactly application/json answers 415,
\* for valid and invalid bodies alike, and leaves the table as it was.
CreateWithOtherContentTypeIsUnsupported ==
    \A content_type \in ContentTypes \ {JSON}, data \in Payloads :
        \E r \in {handle(accounts, next_id,
                        Request("POST", "/accounts", NoId, content_type, data))} :
            r.status = HTTP_415_UNSUPPORTED_MEDIA_TYPE /\ Untouched(r)

CreateWithOtherContentTypeWitness ==
    /\ last.handler = "create_accounts"
    /\ last.status = HTTP_415_UNSUPPORTED_MEDIA_TYPE
    /\ Len(accounts) = 1

\* the row of the table with the id
Row(rows, account_id) == find(rows, account_id)[1]

\* what GET /accounts/{id} answers in the state
Read(rows, seq, account_id) ==
    LET r == handle(rows, seq, Bare("GET", ById, account_id))
    IN  <<r.status, r.body>>

UpdateRenames ==
    \A account_id \in Ids(accounts), data \in ValidPayloads :
        \E r \in {handle(accounts, next_id,
                        Request("PUT", ById, account_id, JSON, data))} :
            Only(data.name) # Row(accounts, account_id).name
                => /\ r.status = HTTP_200_OK
                   /\ Echoes(r, Fields(data))
                   /\ r.body[1].id = account_id
                   /\ Len(r.accounts) = Len(accounts)
                   /\ r.next_id = next_id
                   /\ \A i \in 1 .. Len(accounts) :
                          accounts[i].id # account_id => r.accounts[i] = accounts[i]
                   /\ Read(r.accounts, r.next_id, account_id) = <<HTTP_200_OK, r.body>>

\* C6: PUT /accounts/{id} on an existing record with a payload whose name
\* differs answers 200 with the payload's fields under the same id, changes
\* no other row and not the number of rows; and in every reachable state
\* GET /accounts/{id} of an id that a PUT has written answers 200 with the
\* fields of the last PUT that answered 200.
UpdateIsDurable ==
    /\ UpdateRenames
    /\ \A account_id \in updated :
           \E r \in {handle(accounts, next_id, Bare("GET", ById, account_id))} :
               /\ r.status = HTTP_200_OK
               /\ Echoes(r, written[account_id])
               /\ r.body[1].id = account_id

UpdateIsDurableWitness ==
    /\ last.handler = "update_accounts"
    /\ last.status = HTTP_200_OK
    /\ last.was # <<>>
    /\ last.was[1].name # Row(accounts, last.id).name
    /\ Len(accounts) = 2

\* C7: for every account created by a 201 POST /accounts and not updated
\* since, GET /accounts/{id} with the id of that response answers 200 with
\* that id and the posted name, email, address, phone_number and date_joined.
ReadReturnsPosted ==
    \A account_id \in (DOMAIN written) \ updated :
        \E r \in {handle(accounts, next_id, Bare("GET", ById, account_id))} :
            /\ r.status = HTTP_200_OK
            /\ Echoes(r, written[account_id])
            /\ r.body[1].id = account_id
            /\ Untouched(r)

ReadReturnsPostedWitness ==
    /\ last.handler = "get_accounts"
    /\ last.status = HTTP_200_OK
    /\ last.id = 2
    /\ last.id \in DOMAIN written
    /\ last.id \notin updated
    /\ updated # {}
    /\ Len(accounts) = 2

\* C8: in every reachable state, for every id without a record (0 among
\* them) GET /accounts/{id} and PUT /accounts/{id} answer 404 and leave the
\* table as it was.
MissingIdIsNotFound ==
    /\ 0 \notin Ids(accounts)
    /\ \A account_id \in AccountIds \ Ids(accounts) :
           LET g == handle(accounts, next_id, Bare("GET", ById, account_id))
           IN  /\ g.status = HTTP_404_NOT_FOUND
               /\ Untouched(g)
               /\ \A data \in Payloads :
                      LET u == handle(accounts, next_id,
                                      Request("PUT", ById, account_id, JSON, data))
                      IN  u.status = HTTP_404_NOT_FOUND /\ Untouched(u)

MissingIdIsNotFoundWitness ==
    /\ last.handler = "update_accounts"
    /\ last.status = HTTP_404_NOT_FOUND
    /\ last.was = <<>>
    /\ Len(accounts) = 1

\* C9: in every reachable state GET /accounts answers 200 with one
\* serialized entry per row of the table, in all as many as there were 201
\* responses since the empty table, and leaves the table as it was.
ListHasOneEntryPerAccount ==
    \E r \in {handle(accounts, next_id, Bare("GET", "/accounts", NoId))} :
        /\ r.status = HTTP_200_OK
        /\ Len(r.body) = n_created
        /\ Len(r.body) = Len(accounts)
        /\ \A i \in 1 .. Len(accounts) : r.body[i] = serialize(accounts[i])
        /\ Cardinality(Ids(accounts)) = Len(accounts)
        /\ Untouched(r)

ListHasOneEntryPerAccountWitness ==
    /\ last.handler = "list_accounts"
    /\ last.status = HTTP_200_OK
    /\ n_created = 2

\* C10: in every reachable state, a request with a method that no route
\* decorator binds to its path, DELETE /accounts among them, answers 405 and
\* leaves the table as it was.
UnmappedMethodIsNotAllowed ==
    LET unmapped == {<<"DELETE", "/accounts">>, <<"PUT", "/accounts">>,
                     <<"POST", ById>>, <<"DELETE", ById>>}
                    \cup {<<m, rule>> : m \in Methods \ {"GET"}, rule \in {"/health", "/"}}
    IN  \A mr \in unmapped, account_id \in AccountIds :
            \E r \in {handle(accounts, next_id, Bare(mr[1], mr[2], account_id))} :
                r.status = HTTP_405_METHOD_NOT_ALLOWED /\ Untouched(r)

UnmappedMethodIsNotAllowedWitness ==
    /\ last.method = "DELETE"
    /\ last.rule = "/accounts"
    /\ last.status = HTTP_405_METHOD_NOT_ALLOWED
    /\ Len(accounts) = 1

====
